---- MODULE Spec2Model ----
(***************************************************************************)
(* StockHarvester: the back-test engine of analyzer.py.                    *)
(*                                                                         *)
(*   SpecSim    Analyzer._get_results, the trade simulator, applied to     *)
(*              every price series and buy date within the bounds.         *)
(*   SpecAn     Analyzer._analyze, the per-symbol loop over buy dates,     *)
(*              run twice on the same series while the wall clock moves.   *)
(*   SpecBatch  Analyzer.analyze, the thread-pool fan-out / fan-in.        *)
(*                                                                         *)
(* Prices are whole numbers (the close strings of the quotes API after     *)
(* float()); the two thresholds are kept as exact percentages, so          *)
(* "curr_price <= start_price * (1 - 0.08)" is compared as                 *)
(* "100 * curr_price <= start_price * (100 - 8)".  A gain/loss quotient    *)
(* is kept as its numerator and denominator.  Dates are day numbers; the   *)
(* clock is the day number that datetime.today() has not yet passed.       *)
(***************************************************************************)
EXTENDS Integers, Sequences, FiniteSets, TLC

\* ---------------------------------------------------------------- bounds
\* Longest price series of SpecSim (one more than MIN_HOLD_DAYS + 1, so a
\* trade can leave at day 7 and at day 8).
MaxLen == 9
\* Calendar days a series of SpecAn may have quotes on.
MaxDay == 3
\* Largest number of symbols in a batch (one more than MAX_WORKERS).
MaxSymbols == 5

\* Close prices a quote may carry: from 100, 92 is the loss floor exactly
\* and 115 the gain target exactly.
Prices == {92, 100, 115}

\* ------------------------------------------------------- class constants
MIN_HOLD_DAYS == 7
GAIN_PERCENT_TARGET == 15
LOSS_PERCENT_FLOOR == 8
MAX_WORKERS == 4

\* Python's None (start_date=None, and what a function returns when it
\* falls off its end).
None == 0

VARIABLES
    historical_quotes,   \* date -> close price of one symbol
    buy_date,            \* _get_results: the buy date
    results,             \* _get_results: the returned dict
    start_date,          \* _analyze: start_date argument (None or a date)
    clock,               \* datetime.datetime.today()
    day,                 \* _analyze: enumerate index into sorted_dates
    total_wins,          \* _analyze: total_wins
    total_losses,        \* _analyze: total_losses
    results_by_date,     \* _analyze: results_by_date, in insertion order
    analysis,            \* _analyze: the value it returned
    run,                 \* which call of _analyze this is (1 or 2)
    first_run,           \* what the first call computed
    pc,                  \* position of the call being modelled
    symbols,             \* analyze: the symbols argument
    max_workers,         \* analyze: size of the ThreadPoolExecutor
    futures,             \* analyze: symbol -> state of its future
    work_queue,          \* executor: submitted calls no thread has taken
    submitted,           \* analyze: how many symbols have been submitted
    yielded,             \* analyze: futures as_completed has handed out
    analysis_by_symbol,  \* analyze: the mapping being built
    raised               \* analyze: the exception leaving the call, if any

simVars == <<historical_quotes, buy_date, results>>
anVars == <<start_date, clock, day, total_wins, total_losses,
            results_by_date, analysis, run, first_run>>
batchVars == <<symbols, max_workers, futures, work_queue, submitted,
               yielded, analysis_by_symbol, raised>>
vars == <<simVars, anVars, batchVars, pc>>

\* ------------------------------------------------------------- helpers
Min(S) == CHOOSE x \in S : \A y \in S : x <= y

\* sorted(historical_quotes): the dates in ascending order.
RECURSIVE sorted(_)
sorted(S) ==
    IF S = {} THEN <<>>
    ELSE LET m == Min(S) IN <<m>> \o sorted(S \ {m})

\* ------------------------------------------------- Analyzer._get_results
\* floor_price = start_price * (1 - LOSS_PERCENT_FLOOR), times 100.
floor_price_sign_slip(start_price) == start_price * (100 + LOSS_PERCENT_FLOOR)
floor_price(start_price) == start_price * (100 - LOSS_PERCENT_FLOOR)

\* target_price = start_price * (1 + GAIN_PERCENT_TARGET), times 100.
target_price(start_price) == start_price * (100 + GAIN_PERCENT_TARGET)

\* "if day >= cls.MIN_HOLD_DAYS"
min_hold_strict(d) == d > MIN_HOLD_DAYS
min_hold_early(d) == d >= MIN_HOLD_DAYS - 1
min_hold_reached(d) == d >= MIN_HOLD_DAYS

\* "if curr_price <= floor_price or curr_price >= target_price"
exit_reached(curr_price, start_price) ==
    \/ 100 * curr_price <= floor_price(start_price)
    \/ 100 * curr_price >= target_price(start_price)

\* The dict both return statements build; "g/l" is
\* price_diff / (start_price or 1), kept as numerator and denominator.
result_dict(price_diff, start_price, d, curr_price) ==
    [gl_num     |-> price_diff,
     gl_den     |-> IF start_price = 0 THEN 1 ELSE start_price,
     days       |-> d,
     buy_price  |-> start_price,
     sell_price |-> curr_price]

\* The for loop over sorted_dates, from position i on.
RECURSIVE scan(_, _, _, _, _, _, _)
scan(quotes, sorted_dates, buy, i, d, price_diff, curr_price) ==
    LET start_price == quotes[buy]
    IN  IF i > Len(sorted_dates)
        THEN result_dict(price_diff, start_price, d, curr_price)
        ELSE LET date == sorted_dates[i]
                 cp == quotes[date]
                 pd == cp - start_price
             IN  IF date < buy
                 THEN scan(quotes, sorted_dates, buy, i + 1, d, pd, cp)
                 ELSE IF min_hold_reached(d) /\ exit_reached(cp, start_price)
                      THEN result_dict(pd, start_price, d, cp)
                      ELSE scan(quotes, sorted_dates, buy, i + 1, d + 1, pd, cp)

_get_results(buy, quotes) ==
    scan(quotes, sorted(DOMAIN quotes), buy, 1, 0, 0, 0)

\* --------------------------------------------------------------- SpecSim
\* Every series of 1..MaxLen consecutive dates and every buy date in it.
\* _get_results reads the dates only through their order, so consecutive
\* day numbers stand for any increasing dates.
InitSim ==
    /\ \E n \in 1..MaxLen :
          /\ historical_quotes \in [1..n -> Prices]
          /\ buy_date \in 1..n
    /\ results = None
    /\ pc = "call"
    /\ start_date = None /\ clock = 0 /\ day = 0
    /\ total_wins = 0 /\ total_losses = 0
    /\ results_by_date = <<>> /\ analysis = None
    /\ run = 0 /\ first_run = None
    /\ symbols = <<>> /\ max_workers = 0 /\ futures = <<>>
    /\ work_queue = <<>> /\ submitted = 0 /\ yielded = {}
    /\ analysis_by_symbol = <<>> /\ raised = <<>>

GetResults ==
    /\ pc = "call"
    /\ results' = _get_results(buy_date, historical_quotes)
    /\ pc' = "returned"
    /\ UNCHANGED <<historical_quotes, buy_date, anVars, batchVars>>

NextSim == GetResults

SpecSim == InitSim /\ [][NextSim]_vars

\* ------------------------------------------- the simulator's contract
\* The series dates at or after the buy date.
DatesFrom(quotes, buy) == {t \in DOMAIN quotes : t >= buy}

\* d at date t: 0 on the buy date, one more for every later series date.
HeldDays(quotes, buy, t) ==
    Cardinality({u \in DOMAIN quotes : buy <= u /\ u < t})

\* C <= P*(1-lossFloor) or C >= P*(1+gainTarget), in hundredths.
PriceLeaves(P, C) ==
    \/ 100 * C <= P * (100 - LOSS_PERCENT_FLOOR)
    \/ 100 * C >= P * (100 + GAIN_PERCENT_TARGET)

\* The dates at or after the buy date on which the trade may be left.
ExitDates(quotes, buy) ==
    {t \in DatesFrom(quotes, buy) :
        /\ HeldDays(quotes, buy, t) >= MIN_HOLD_DAYS
        /\ PriceLeaves(quotes[buy], quotes[t])}

LastDate(quotes) == CHOOSE t \in DOMAIN quotes : \A u \in DOMAIN quotes : u <= t

\* The outcome of selling at date t.
OutcomeAt(quotes, buy, t, d) ==
    [gl_num     |-> quotes[t] - quotes[buy],
     gl_den     |-> quotes[buy],
     days       |-> d,
     buy_price  |-> quotes[buy],
     sell_price |-> quotes[t]]

\* C2: when some date at or after the buy date has d >= MIN_HOLD_DAYS and
\* a close at or beyond the floor or the target, _get_results returns the
\* outcome of the FIRST such date: gain/loss (C-P)/P, days d, buy price P,
\* sell price C.  No earlier date, and no date with d < MIN_HOLD_DAYS,
\* ends the trade.
C2_FirstExit ==
    (pc = "returned" /\ ExitDates(historical_quotes, buy_date) # {}) =>
        LET t == Min(ExitDates(historical_quotes, buy_date))
        IN  /\ results = OutcomeAt(historical_quotes, buy_date, t,
                                   HeldDays(historical_quotes, buy_date, t))
            /\ results.days >= MIN_HOLD_DAYS

\* C2 witness: the trade was left on day 8, after a date inside the
\* minimum hold whose close was already beyond a threshold and a day-7
\* close that was not.
C2_Witness ==
    /\ pc = "returned"
    /\ ExitDates(historical_quotes, buy_date) # {}
    /\ results.days = MIN_HOLD_DAYS + 1
    /\ \E u \in DatesFrom(historical_quotes, buy_date) :
          /\ HeldDays(historical_quotes, buy_date, u) < MIN_HOLD_DAYS
          /\ PriceLeaves(historical_quotes[buy_date], historical_quotes[u])

\* C3: when no date at or after the buy date with d >= MIN_HOLD_DAYS has
\* a close at or beyond a threshold, _get_results returns the outcome
\* against the last close of the series, with days = the number of series
\* dates from the buy date through the end.
C3_Exhausted ==
    (pc = "returned" /\ ExitDates(historical_quotes, buy_date) = {}) =>
        results = OutcomeAt(historical_quotes, buy_date,
                            LastDate(historical_quotes),
                            Cardinality(DatesFrom(historical_quotes, buy_date)))

\* C3 witness: a series that runs past the minimum hold without ever
\* reaching a threshold and ends away from the buy price.
C3_Witness ==
    /\ pc = "returned"
    /\ ExitDates(historical_quotes, buy_date) = {}
    /\ Cardinality(DatesFrom(historical_quotes, buy_date)) > MIN_HOLD_DAYS + 1
    /\ results.gl_num # 0

\* C4: the holding-day count returned is >= MIN_HOLD_DAYS or is the count
\* of series dates from the buy date to the end of the series.
C4_HoldingDays ==
    pc = "returned" =>
        \/ results.days >= MIN_HOLD_DAYS
        \/ results.days = Cardinality(DatesFrom(historical_quotes, buy_date))

\* C4 witness: a trade left exactly at the minimum hold, before the end
\* of the series.
C4_Witness ==
    /\ pc = "returned"
    /\ results.days = MIN_HOLD_DAYS
    /\ results.days < Cardinality(DatesFrom(historical_quotes, buy_date))

\* ----------------------------------------------------- Analyzer._analyze
\* Latest clock reading of SpecAn: late enough for every date to be held.
MaxClock == MIN_HOLD_DAYS + MaxDay + 1

\* "if start_date and date < start_date" (a datetime is always truthy).
before_start(date, start) == start # None /\ date < start

\* "if date + timedelta(days=MIN_HOLD_DAYS) >= datetime.today()"
not_yet_held_strict(date, today) == date + MIN_HOLD_DAYS > today
not_yet_held(date, today) == date + MIN_HOLD_DAYS >= today

\* "is_win = results['g/l']; if is_win": the truth value of a float.
is_win(r) == r.gl_num # 0

\* What _analyze hands back: it ends at the loop of lines 76-77, whose
\* body is "pass", and has no return statement.
analyze_return(symbol) == None

\* All values of historical_quotes that get_historical_quotes may return:
\* closes on any set of days (json keys are distinct dates).
QuoteSeries == UNION {[D -> Prices] : D \in SUBSET (1..MaxDay)}

InitAn ==
    /\ historical_quotes \in QuoteSeries
    /\ start_date \in {None} \cup (1..MaxDay)
    /\ clock \in (MIN_HOLD_DAYS + 1)..MaxClock
    /\ day = 1
    /\ total_wins = 0 /\ total_losses = 0
    /\ results_by_date = <<>>
    /\ analysis = None
    /\ run = 1 /\ first_run = None
    /\ pc = "loop"
    /\ buy_date = None /\ results = None
    /\ symbols = <<>> /\ max_workers = 0 /\ futures = <<>>
    /\ work_queue = <<>> /\ submitted = 0 /\ yielded = {}
    /\ analysis_by_symbol = <<>> /\ raised = <<>>

\* Midnight passes: datetime.today() is read anew in every iteration.
Tick ==
    /\ pc \in {"loop", "done"}
    /\ clock < MaxClock
    /\ clock' = clock + 1
    /\ UNCHANGED <<simVars, start_date, day, total_wins, total_losses,
                   results_by_date, analysis, run, first_run, batchVars, pc>>

\* One iteration of "for day, date in enumerate(sorted_dates)".
LoopStep ==
    /\ pc = "loop"
    /\ day <= Len(sorted(DOMAIN historical_quotes))
    /\ LET date == sorted(DOMAIN historical_quotes)[day]
           r == _get_results(date, historical_quotes)
       IN  IF before_start(date, start_date) \/ not_yet_held(date, clock)
           THEN UNCHANGED <<total_wins, total_losses, results_by_date>>
           ELSE IF is_win(r)
                THEN /\ total_wins' = total_wins + 1
                     /\ total_losses' = total_losses
                     /\ results_by_date' = Append(results_by_date,
                            [date |-> date, result |-> "w",
                             num_hold_days |-> r.days])
                ELSE /\ total_losses' = total_losses + 1
                     /\ total_wins' = total_wins
                     /\ results_by_date' = Append(results_by_date,
                            [date |-> date, result |-> "l",
                             num_hold_days |-> r.days])
    /\ day' = day + 1
    /\ UNCHANGED <<simVars, start_date, clock, analysis, run, first_run,
                   batchVars, pc>>

\* The loop is exhausted: lines 76-77 do nothing and the call returns.
Return ==
    /\ pc = "loop"
    /\ day > Len(sorted(DOMAIN historical_quotes))
    /\ analysis' = analyze_return(None)
    /\ pc' = "done"
    /\ UNCHANGED <<simVars, start_date, clock, day, total_wins, total_losses,
                   results_by_date, run, first_run, batchVars>>

\* _analyze is called a second time on the same series and start_date.
Again ==
    /\ pc = "done"
    /\ run = 1
    /\ first_run' = [total_wins |-> total_wins, total_losses |-> total_losses,
                     results_by_date |-> results_by_date]
    /\ run' = 2
    /\ day' = 1
    /\ total_wins' = 0 /\ total_losses' = 0
    /\ results_by_date' = <<>>
    /\ pc' = "loop"
    /\ UNCHANGED <<simVars, start_date, clock, analysis, batchVars>>

NextAn == Tick \/ LoopStep \/ Return \/ Again

SpecAn == InitAn /\ [][NextAn]_vars

\* ------------------------------------------ the aggregator's contract
\* Length of a period: the periodLength parameter of analyzeSymbol.
PeriodLength == 2

\* The periods an analysis carries; None carries none.
periods_of(a) == IF a = None THEN <<>> ELSE a.periods

\* Gain/loss numerator of the trade bought at the i-th recorded date.
GainAt(i) == _get_results(results_by_date[i].date, historical_quotes).gl_num

\* C1 (as claimed): every simulated trade is tallied by the sign of its
\* gain/loss: > 0 is one win, < 0 is one loss, exactly 0 is neither.
C1_SignClassification ==
    /\ total_wins =
         Cardinality({i \in 1..Len(results_by_date) : GainAt(i) > 0})
    /\ total_losses =
         Cardinality({i \in 1..Len(results_by_date) : GainAt(i) < 0})

\* The recorded outcomes with a non-zero gain/loss, in recorded order.
Classified == SelectSeq(results_by_date,
    LAMBDA e : _get_results(e.date, historical_quotes).gl_num # 0)

\* C8 (as claimed): once the analysis has returned, its periods are
\* exactly the consecutive full blocks of PeriodLength classified
\* outcomes: one period per full block, each with wins + losses =
\* PeriodLength and the wins of its block.
C8_FullPeriods ==
    pc = "done" =>
        LET periods == periods_of(analysis)
        IN  /\ Len(periods) = Len(Classified) \div PeriodLength
            /\ \A k \in 1..Len(periods) :
                  /\ periods[k].wins + periods[k].losses = PeriodLength
                  /\ periods[k].wins = Cardinality(
                        {i \in ((k - 1) * PeriodLength + 1)..(k * PeriodLength) :
                            Classified[i].result = "w"})

\* The dates recorded in results_by_date are in ascending order.
Ascending(rbd) ==
    \A i \in 1..Len(rbd), j \in 1..Len(rbd) : i < j => rbd[i].date < rbd[j].date

\* C9: an iteration of the loop simulates a trade for its date exactly
\* when the date is not before start_date (if one is given) and
\* date + MIN_HOLD_DAYS < now; any other date leaves both tallies and the
\* recorded results alone; trades are recorded in ascending date order.
C9_Eligibility ==
    [][(pc = "loop" /\ day' = day + 1) =>
         LET date == sorted(DOMAIN historical_quotes)[day]
             eligible == /\ (start_date = None \/ date >= start_date)
                         /\ date + MIN_HOLD_DAYS < clock
             simulated == /\ Len(results_by_date') = Len(results_by_date) + 1
                          /\ results_by_date'[Len(results_by_date')].date = date
                          /\ total_wins' + total_losses'
                               = total_wins + total_losses + 1
         IN  /\ eligible <=> simulated
             /\ ~eligible => UNCHANGED <<total_wins, total_losses,
                                         results_by_date>>
             /\ Ascending(results_by_date')]_vars

\* C9 witness: a finished run that skipped a date before start_date,
\* simulated a later one and skipped a date too close to now.
C9_Witness ==
    /\ pc = "done"
    /\ start_date # None
    /\ Len(results_by_date) >= 1
    /\ \E d \in DOMAIN historical_quotes : d < start_date
    /\ \E d \in DOMAIN historical_quotes :
          d > results_by_date[Len(results_by_date)].date

\* C10 (as claimed): a second call on the same series and start_date
\* computes what the first call computed.
C10_SameOutput ==
    (pc = "done" /\ run = 2) =>
        /\ total_wins = first_run.total_wins
        /\ total_losses = first_run.total_losses
        /\ results_by_date = first_run.results_by_date

\* ------------------------------------------------------ Analyzer.analyze
\* "max_workers=min(len(symbols), cls.MAX_WORKERS)"
pool_size_uncapped(n) == n
pool_size(n) == IF n < MAX_WORKERS THEN n ELSE MAX_WORKERS

Running == {s \in DOMAIN futures : futures[s] = "RUNNING"}
Finished == {s \in DOMAIN futures : futures[s] \in {"RETURNED", "EXCEPTION"}}

\* A batch of 1..MaxSymbols distinct symbols; the executor has been built.
InitBatch ==
    /\ \E n \in 1..MaxSymbols :
          /\ symbols = [i \in 1..n |-> i]
          /\ max_workers = pool_size(n)
    /\ futures = <<>>
    /\ work_queue = <<>>
    /\ submitted = 0
    /\ yielded = {}
    /\ analysis_by_symbol = <<>>
    /\ raised = <<>>
    /\ pc = "submit"
    /\ historical_quotes = <<>> /\ buy_date = None /\ results = None
    /\ start_date = None /\ clock = 0 /\ day = 0
    /\ total_wins = 0 /\ total_losses = 0
    /\ results_by_date = <<>> /\ analysis = None
    /\ run = 0 /\ first_run = None

\* "future = executor.submit(cls._analyze, symbol, start_date)"
Submit ==
    /\ pc = "submit"
    /\ LET symbol == symbols[submitted + 1]
       IN  /\ futures' = Append(futures, "PENDING")
           /\ work_queue' = Append(work_queue, symbol)
    /\ submitted' = submitted + 1
    /\ pc' = IF submitted + 1 = Len(symbols) THEN "collect" ELSE "submit"
    /\ UNCHANGED <<simVars, anVars, symbols, max_workers, yielded,
                   analysis_by_symbol, raised>>

\* A pool thread takes the oldest submitted call; the pool has
\* max_workers threads, each running one call at a time.
WorkerStart ==
    /\ work_queue # <<>>
    /\ Cardinality(Running) < max_workers
    /\ futures' = [futures EXCEPT ![Head(work_queue)] = "RUNNING"]
    /\ work_queue' = Tail(work_queue)
    /\ UNCHANGED <<simVars, anVars, symbols, max_workers, submitted, yielded,
                   analysis_by_symbol, raised, pc>>

\* get_historical_quotes raises inside _analyze (status code other than
\* 200, empty response, ambiguous time-series key).
WorkerFetchFails ==
    \E s \in Running :
        /\ futures' = [futures EXCEPT ![s] = "EXCEPTION"]
        /\ UNCHANGED <<simVars, anVars, symbols, max_workers, work_queue,
                       submitted, yielded, analysis_by_symbol, raised, pc>>

\* _analyze runs to its end; its tallies are locals and go with the call.
WorkerReturns ==
    \E s \in Running :
        /\ futures' = [futures EXCEPT ![s] = "RETURNED"]
        /\ UNCHANGED <<simVars, anVars, symbols, max_workers, work_queue,
                       submitted, yielded, analysis_by_symbol, raised, pc>>

\* One iteration of "for future in as_completed(futures)": future.result()
\* re-raises the call's exception; otherwise analysis["symbol"] is read,
\* which raises TypeError on None.  An exception leaves the loop and the
\* with block; so does the end of the loop.
Collect ==
    /\ pc = "collect"
    /\ \E s \in Finished \ yielded :
          /\ yielded' = yielded \cup {s}
          /\ IF futures[s] = "EXCEPTION"
             THEN /\ raised' = <<"Exception">>
                  /\ pc' = "exiting"
                  /\ UNCHANGED analysis_by_symbol
             ELSE IF analyze_return(s) = None
                  THEN /\ raised' = <<"TypeError">>
                       /\ pc' = "exiting"
                       /\ UNCHANGED analysis_by_symbol
                  ELSE /\ analysis_by_symbol' =
                            (analyze_return(s).symbol :> analyze_return(s))
                                @@ analysis_by_symbol
                       /\ pc' = IF yielded' = DOMAIN futures
                                THEN "exiting" ELSE "collect"
                       /\ UNCHANGED raised
    /\ UNCHANGED <<simVars, anVars, symbols, max_workers, futures,
                   work_queue, submitted>>

\* ThreadPoolExecutor.__exit__: shutdown(wait=True) lets the pool drain,
\* then the with block is left, by "return analysis_by_symbol" or by the
\* pending exception.
ExitWith ==
    /\ pc = "exiting"
    /\ work_queue = <<>>
    /\ Running = {}
    /\ pc' = IF raised = <<>> THEN "returned" ELSE "raised"
    /\ UNCHANGED <<simVars, anVars, batchVars>>

NextBatch ==
    \/ Submit
    \/ WorkerStart
    \/ WorkerFetchFails
    \/ WorkerReturns
    \/ Collect
    \/ ExitWith

SpecBatch == InitBatch /\ [][NextBatch]_vars

\* --------------------------------------------------- the batch contract
Requested == {symbols[i] : i \in DOMAIN symbols}
Terminated == pc \in {"returned", "raised"}
Failed == {s \in DOMAIN futures : futures[s] = "EXCEPTION"}

\* C5 (as claimed, with the return it speaks of): a batch in which no
\* worker failed ends by returning, and the mapping returned has an entry
\* for every requested symbol, whatever the completion order.
C5_AllSymbolsPresent ==
    (Terminated /\ Failed = {}) =>
        /\ pc = "returned"
        /\ DOMAIN analysis_by_symbol = Requested

\* C6 (as claimed): a batch in which one symbol failed and another
\* completed does not raise: it returns a mapping that holds the failure
\* in the failing symbol's slot and every other symbol's analysis.
C6_FailureCaptured ==
    (Terminated /\ Failed # {} /\ Failed # DOMAIN futures) =>
        /\ pc = "returned"
        /\ raised = <<>>
        /\ DOMAIN analysis_by_symbol = Requested

\* C7: the per-symbol analyses in flight at once never exceed
\* min(number of requested symbols, MAX_WORKERS).
C7_BoundedInFlight ==
    /\ Cardinality(Running) <= Len(symbols)
    /\ Cardinality(Running) <= MAX_WORKERS

\* C7 witness: MAX_WORKERS analyses are in flight and one more symbol
\* waits in the queue for a free thread.
C7_Witness ==
    /\ pc \in {"submit", "collect", "exiting"}
    /\ Len(symbols) > MAX_WORKERS
    /\ Cardinality(Running) = MAX_WORKERS
    /\ work_queue # <<>>

====
